---- MODULE Spec2Model ----
(***************************************************************************)
(* Model of packages/puppeteer/src/pool.ts: a generic-pool of browsers     *)
(* with page sessions (acquirePage / release / callPage / getPageContent)  *)
(* layered on top of it. The pool engine itself is the generic-pool        *)
(* library; its acquire, dispense and release are modelled as the Pool     *)
(* Engine of the specification (section 4.1) describes them.               *)
(*                                                                         *)
(* Granularity: one action per piece of code that runs between two         *)
(* suspension points that wait for the outside world (browser creation,    *)
(* context creation, page creation, page close, context close, handler).   *)
(* Code that is separated only by promise resolution (pool.release,        *)
(* factory.validate, the return of an async function) runs in one step,    *)
(* as the JavaScript job queue runs it.                                    *)
(*                                                                         *)
(* Environment: createBrowser always succeeds; every other call into the   *)
(* browser (createIncognitoBrowserContext, newPage, close, goto, content,  *)
(* setupPageRules) may succeed or throw; popups may be reported at any     *)
(* time after the listener is registered; a browser may have passed        *)
(* opts.timeout whenever the pool looks at it. Users of acquirePage may    *)
(* call page.release() again once the previous call has settled, and in    *)
(* SpecTree also while it is still running.                                *)
(*                                                                         *)
(* Specifications: Spec is the pool in use by two callers with every entry *)
(* point and every page option. Spec3 has three callers of acquirePage on  *)
(* a pool of one browser. SpecTree follows one session with popups, pages  *)
(* opened by popups and overlapping release() calls. SpecLife adds the     *)
(* SIGTERM hook. SpecWarm is a pool with min = 2 under fair creation.      *)
(***************************************************************************)
EXTENDS Naturals, Sequences, FiniteSets, TLC

\* ------------------------------------------------------------- bounds ----
NumCalls    == 2   \* calls of acquirePage / callPage / getPageContent made
MaxPopups   == 1   \* popups reported, over all sessions
MaxReleases == 2   \* release() calls made by users, over all sessions
MaxExpiries == 1   \* browsers that outlive opts.timeout
MaxCalls    == 3   \* calls made in Spec3
MaxNested   == 1   \* pages opened by popups, over all sessions

Calls == 1..MaxCalls

\* ---------------------------------------------------------- variables ----
VARIABLES
  options,    \* the options argument of createPool
  available,  \* pool: idle browsers, oldest first
  loaned,     \* pool: browsers handed out by acquire and not yet released
  creating,   \* pool: factory.create operations in flight
  waiting,    \* pool: queued acquire requests, oldest first
  created,    \* number of browsers factory.create has returned
  expired,    \* browsers for which poolIsValid() is now false
  destroyed,  \* browsers factory.destroy was called on
  signal,     \* the SIGTERM hook: "none", "clearing" or "exited"
  kind,       \* per call: which entry point was called
  popts,      \* per call: the PageOptions argument
  pc,         \* per call: position in acquirePage / callPage
  acq,        \* per call: outcome of acquirePage
  got,        \* per call: browser returned by pool.acquire (0: none)
  ctx,        \* per call: ingocnito is non-null
  home,       \* per call: where newPage() was called
  pages,      \* per call: the pages array (page k = k-th page created)
  nested,     \* per call: pages opened by popups while the page is in use
  rules,      \* per call: per page, number of setupPageRules calls
  rel,        \* per call: the release() invocations made so far
  handled,    \* per call: outcome of the handler of callPage
  navigated,  \* per call: page.goto was called
  result      \* per call: what the caller of the entry point received

poolVars == <<available, loaned, creating, waiting, created, expired,
              destroyed>>
callVars == <<kind, popts, pc, acq, got, ctx, home, pages, nested, rules,
              rel, handled, navigated, result>>
vars == <<options, available, loaned, creating, waiting, created, expired,
          destroyed, signal, kind, popts, pc, acq, got, ctx, home, pages,
          nested, rules, rel, handled, navigated, result>>

\* ------------------------------------------------------------ options ----
NoOptions == [k \in {} |-> 0]

defaultPoolOptions ==
  [autostart |-> TRUE, min |-> 0, max |-> 5, testOnBorrow |-> TRUE,
   timeout |-> 30000]

\* the option objects passed to createPool
PoolOptionChoices ==
  { NoOptions,
    [max |-> 1],
    [max |-> 1, testOnBorrow |-> FALSE] }

\* { ...a, ...b }
Merge(a, b) ==
  [k \in DOMAIN a \cup DOMAIN b |-> IF k \in DOMAIN b THEN b[k] ELSE a[k]]

\* mutant: the options of the caller are dropped
opts_IgnoreOptions == defaultPoolOptions

\* const opts = { ...defaultPoolOptions, ...options }
opts == Merge(defaultPoolOptions, options)

defaultPageOptions == [incognito |-> TRUE, applyRulesToPopups |-> TRUE]

\* the option objects passed to acquirePage / callPage / getPageContent;
\* ruleOptions is TRUE when the caller supplied rule options
PageOptionChoices ==
  { NoOptions,
    [ruleOptions |-> TRUE],
    [incognito |-> FALSE, applyRulesToPopups |-> FALSE,
     ruleOptions |-> TRUE] }

\* const opts = { ...defaultPageOptions, ...options }
pageOpts(o) == Merge(defaultPageOptions, o)

hasRuleOptions(o) == "ruleOptions" \in DOMAIN pageOpts(o)

\* ------------------------------------------------------------ helpers ----
Min(a, b) == IF a < b THEN a ELSE b

SeqSet(s) == { s[i] : i \in 1..Len(s) }

Reverse(s) == [i \in 1..Len(s) |-> s[Len(s) + 1 - i]]

RECURSIVE Sum(_, _)
Sum(f, S) ==
  IF S = {} THEN 0
  ELSE LET x == CHOOSE x \in S : TRUE IN f[x] + Sum(f, S \ {x})

\* popups reported so far
NumPopups ==
  Sum([c \in Calls |-> IF Len(pages[c]) > 0 THEN Len(pages[c]) - 1 ELSE 0],
      Calls)

\* release() calls made by users so far
NumUserReleases ==
  Sum([c \in Calls |->
         Cardinality({r \in 1..Len(rel[c]) : rel[c][r].by = "user"})], Calls)

\* ---------------------------------------------------------- pool core ----
\* The pool state handled by the engine, as one record.
PoolState ==
  [available |-> available, loaned |-> loaned, creating |-> creating,
   waiting |-> waiting, destroyed |-> destroyed, grants |-> <<>>]

\* The SIGTERM hook has called pool.clear(): the pool is being drained.
draining == signal # "none"

\* The process has not exited.
Running == signal # "exited"

\* mutant: factory.destroy does not close the browser
destroy_Noop(D, b) == D

\* factory.destroy(browser): `await browser.close()`. D is the set of
\* browsers closed so far.
destroy(D, b) == D \cup {b}

\* Pool.clear(): every idle browser is destroyed and every queued request is
\* rejected.
clear(P) ==
  [P EXCEPT !.available = <<>>,
            !.waiting = <<>>,
            !.destroyed = UNION ({@} \cup
                                 { destroy(@, b) : b \in SeqSet(P.available) })]

\* Pool._ensureMinimum: create what is missing up to opts.min.
ensureMinimum(P) ==
  LET count == Len(P.available) + Cardinality(P.loaned) + P.creating
  IN  IF opts.min > count
      THEN [P EXCEPT !.creating = @ + (opts.min - count)]
      ELSE P

\* mutant: every browser passes validation
validate_Always(b, old) == TRUE

\* factory.validate: browser.poolIsValid(), where old is the set of browsers
\* created at least opts.timeout ago
validate(b, old) == b \notin old

\* Pool._dispense with the validation of testOnBorrow: create what is
\* missing for the waiting requests, then hand idle browsers to the oldest
\* requests; an idle browser that fails validation is destroyed.
RECURSIVE Dispense(_, _)
Dispense(P, old) ==
  IF Len(P.waiting) = 0 THEN P
  ELSE
    LET count     == Len(P.available) + Cardinality(P.loaned) + P.creating
        spare     == IF opts.max > count THEN opts.max - count ELSE 0
        allocable == Len(P.available) + P.creating
        shortfall == IF Len(P.waiting) > allocable
                     THEN Len(P.waiting) - allocable ELSE 0
        P1        == [P EXCEPT !.creating = @ + Min(spare, shortfall)]
    IN  IF Len(P1.available) = 0 THEN P1
        ELSE
          LET b == Head(P1.available)
          IN  IF opts.testOnBorrow /\ ~validate(b, old)
              THEN Dispense(ensureMinimum(
                     [P1 EXCEPT !.available = Tail(@),
                                !.destroyed = destroy(@, b)]), old)
              ELSE Dispense([P1 EXCEPT
                     !.available = Tail(@),
                     !.loaned    = @ \cup {b},
                     !.waiting   = Tail(@),
                     !.grants    = Append(@, <<Head(P1.waiting), b>>)], old)

\* the browser a dispense granted to call c, or 0
Granted(P, c) ==
  IF \E i \in 1..Len(P.grants) : P.grants[i][1] = c
  THEN LET i == CHOOSE i \in 1..Len(P.grants) : P.grants[i][1] = c
       IN  P.grants[i][2]
  ELSE 0

\* The browsers that may have passed opts.timeout when the pool looks at its
\* idle browsers: any of the idle ones, MaxExpiries in all. A browser that has
\* passed the timeout stays so.
Aged(idle) ==
  { expired \cup S : S \in { T \in SUBSET SeqSet(idle) :
       Cardinality(expired \cup T) <= MaxExpiries } }

\* mutant: acquirePage never creates an incognito context
AfterAcquire_NoContext(o) == "newPage"

\* acquirePage resumes after `await pool.acquire()` and starts the next
\* call into the browser
AfterAcquire(o) == IF pageOpts(o).incognito THEN "context" ELSE "newPage"

\* Install the pool state P and resume the calls it granted a browser.
\* basePc and po are the pc and the page options the grants are applied to.
ApplyPool(P, basePc, po) ==
  /\ available' = P.available
  /\ loaned' = P.loaned
  /\ creating' = P.creating
  /\ waiting' = P.waiting
  /\ destroyed' = P.destroyed
  /\ got' = [c \in Calls |-> IF Granted(P, c) # 0 THEN Granted(P, c)
                             ELSE got[c]]
  /\ pc' = [c \in Calls |-> IF Granted(P, c) # 0 THEN AfterAcquire(po[c])
                            ELSE basePc[c]]

\* --------------------------------------------------------------- Init ----
\* mutant: the pool starts to create max browsers
started_Max == IF opts.autostart THEN opts.max ELSE 0

\* genericPool.createPool(factory, opts): the browsers the pool starts to
\* create when it is constructed.
started == IF opts.autostart THEN opts.min ELSE 0

\* createPool has returned: with autostart the pool has started to create
\* opts.min browsers, and the SIGTERM hook is registered.
Constructed ==
  /\ available = <<>>
  /\ loaned = {}
  /\ creating = started
  /\ waiting = <<>>
  /\ created = 0
  /\ expired = {}
  /\ destroyed = {}
  /\ signal = "none"
  /\ kind = [c \in Calls |-> "none"]
  /\ popts = [c \in Calls |-> NoOptions]
  /\ pc = [c \in Calls |-> "init"]
  /\ acq = [c \in Calls |-> "none"]
  /\ got = [c \in Calls |-> 0]
  /\ ctx = [c \in Calls |-> FALSE]
  /\ home = [c \in Calls |-> "none"]
  /\ pages = [c \in Calls |-> <<>>]
  /\ nested = [c \in Calls |-> 0]
  /\ rules = [c \in Calls |-> <<>>]
  /\ rel = [c \in Calls |-> <<>>]
  /\ handled = [c \in Calls |-> "none"]
  /\ navigated = [c \in Calls |-> FALSE]
  /\ result = [c \in Calls |-> "none"]

Init == options \in PoolOptionChoices /\ Constructed

\* ------------------------------------------------------------ actions ----
\* mutant: the request of a later call goes to the front of the queue
Start_JumpQueue(c, k, o) ==
  /\ Running
  /\ pc[c] = "init"
  /\ \A d \in 1..(c - 1) : pc[d] # "init"
  /\ kind' = [kind EXCEPT ![c] = k]
  /\ popts' = [popts EXCEPT ![c] = o]
  /\ IF draining
     THEN /\ acq' = [acq EXCEPT ![c] = "error"]
          /\ result' = [result EXCEPT ![c] = "acquireError"]
          /\ pc' = [pc EXCEPT ![c] = "done"]
          /\ UNCHANGED <<poolVars, got>>
     ELSE /\ expired' \in Aged(available)
          /\ ApplyPool(Dispense([PoolState EXCEPT
                                   !.waiting = <<c>> \o @], expired'),
                       [pc EXCEPT ![c] = "acquire"], popts')
          /\ UNCHANGED <<created, acq, result>>
  /\ UNCHANGED <<options, signal, nested, home, ctx, pages, rules, rel,
                 handled, navigated>>

\* A caller makes the c-th call of acquirePage, callPage or getPageContent,
\* with options o. All three start with pool.acquire(). A pool that is being
\* drained rejects acquire(), and acquirePage rejects.
Start(c, k, o) ==
  /\ Running
  /\ pc[c] = "init"
  /\ \A d \in 1..(c - 1) : pc[d] # "init"
  /\ kind' = [kind EXCEPT ![c] = k]
  /\ popts' = [popts EXCEPT ![c] = o]
  /\ IF draining
     THEN /\ acq' = [acq EXCEPT ![c] = "error"]
          /\ result' = [result EXCEPT ![c] = "acquireError"]
          /\ pc' = [pc EXCEPT ![c] = "done"]
          /\ UNCHANGED <<poolVars, got>>
     ELSE /\ expired' \in Aged(available)
          /\ ApplyPool(Dispense([PoolState EXCEPT
                                   !.waiting = Append(@, c)], expired'),
                       [pc EXCEPT ![c] = "acquire"], popts')
          /\ UNCHANGED <<created, acq, result>>
  /\ UNCHANGED <<options, signal, nested, home, ctx, pages, rules, rel,
                 handled, navigated>>

\* factory.create returns a browser; the pool adds it to the idle browsers
\* and dispenses. A pool that is being drained destroys it.
CreateDone ==
  /\ Running
  /\ creating > 0
  /\ created' = created + 1
  /\ IF draining
     THEN /\ creating' = creating - 1
          /\ destroyed' = destroy(destroyed, created + 1)
          /\ UNCHANGED <<available, loaned, waiting, got, pc>>
     ELSE ApplyPool(Dispense([PoolState EXCEPT
                               !.creating = @ - 1,
                               !.available = Append(@, created + 1)],
                            expired),
                   pc, popts)
  /\ UNCHANGED <<options, signal, nested, home, expired, kind, popts, acq,
                 ctx, pages, rules, rel, handled, navigated, result>>

\* `await browser.createIncognitoBrowserContext()` settles. When it throws,
\* acquirePage rejects; nothing releases the browser.
ContextDone(c, ok) ==
  /\ Running
  /\ pc[c] = "context"
  /\ IF ok
     THEN /\ ctx' = [ctx EXCEPT ![c] = TRUE]
          /\ pc' = [pc EXCEPT ![c] = "newPage"]
          /\ UNCHANGED <<acq, result>>
     ELSE /\ acq' = [acq EXCEPT ![c] = "error"]
          /\ result' = [result EXCEPT ![c] = "acquireError"]
          /\ pc' = [pc EXCEPT ![c] = "done"]
          /\ UNCHANGED ctx
  /\ UNCHANGED <<options, signal, nested, home, poolVars,
                 kind, popts, got, pages, rules, rel,
                 handled, navigated>>

\* What the caller does once acquirePage has returned the page.
AfterPage(c) ==
  CASE kind[c] = "acquirePage"    -> "held"
    [] kind[c] = "callPage"       -> "handler"
    [] kind[c] = "getPageContent" -> "goto"

\* `if (opts.ruleOptions) page.setupRules(opts.ruleOptions)`: the number of
\* setupPageRules calls made on the primary page
primaryRules(o) == IF hasRuleOptions(o) THEN 1 ELSE 0

\* mutant: the popup listener does not apply the rules
popupRules_Never(o) == 0

\* `if (opts.applyRulesToPopups && opts.ruleOptions) p.setupRules(...)`: the
\* number of setupPageRules calls made on a popup
popupRules(o) ==
  IF pageOpts(o).applyRulesToPopups /\ hasRuleOptions(o) THEN 1 ELSE 0

\* `(ingocnito ?? browser).newPage()`: where the primary page is created
pageHome(c) == IF ctx[c] THEN "context" ELSE "browser"

\* `await (ingocnito ?? browser).newPage()` settles and acquirePage runs to
\* its end: pages = [page], page.release and page.setupRules are defined,
\* the rules are applied when ruleOptions is set, the popup listener is
\* registered and the page is returned. callPage then calls the handler, and
\* the handler of getPageContent calls page.goto(url).
NewPageDone(c, ok, rulesOk) ==
  /\ Running
  /\ pc[c] = "newPage"
  /\ ok \/ rulesOk
  /\ hasRuleOptions(popts[c]) \/ rulesOk
  /\ IF ~ok
     THEN /\ acq' = [acq EXCEPT ![c] = "error"]
          /\ result' = [result EXCEPT ![c] = "acquireError"]
          /\ pc' = [pc EXCEPT ![c] = "done"]
          /\ UNCHANGED <<home, pages, rules, navigated>>
     ELSE /\ home' = [home EXCEPT ![c] = pageHome(c)]
          /\ pages' = [pages EXCEPT ![c] = <<1>>]
          /\ rules' = [rules EXCEPT ![c] = <<primaryRules(popts[c])>>]
          /\ IF rulesOk
             THEN /\ acq' = [acq EXCEPT ![c] = "ok"]
                  /\ pc' = [pc EXCEPT ![c] = AfterPage(c)]
                  /\ result' = [result EXCEPT ![c] =
                       IF kind[c] = "acquirePage" THEN "page" ELSE @]
                  /\ navigated' = [navigated EXCEPT ![c] =
                       kind[c] = "getPageContent"]
             ELSE /\ acq' = [acq EXCEPT ![c] = "error"]
                  /\ result' = [result EXCEPT ![c] = "acquireError"]
                  /\ pc' = [pc EXCEPT ![c] = "done"]
                  /\ UNCHANGED navigated
  /\ UNCHANGED <<options, signal, nested, poolVars, kind, popts, got, ctx, rel,
                 handled>>

\* The listener of page.on("popup") runs: the popup is pushed on pages and
\* the rules are applied to it when applyRulesToPopups and ruleOptions are
\* set. The listener is registered when acquirePage returns and is never
\* removed.
Popup(c) ==
  /\ Running
  /\ acq[c] = "ok"
  /\ NumPopups < MaxPopups
  /\ pages' = [pages EXCEPT ![c] = Append(@, Len(@) + 1)]
  /\ rules' = [rules EXCEPT ![c] = Append(@, popupRules(popts[c]))]
  /\ UNCHANGED <<options, signal, nested, home, poolVars,
                 kind, popts, pc, acq, got, ctx, rel,
                 handled, navigated, result>>

\* A popup opens a page of its own while the session is in use. The popup
\* listener is registered on the primary page only, so the session is not
\* told: nested counts the pages opened this way that are still open.
NestedPopup(c) ==
  /\ Running
  /\ acq[c] = "ok"
  /\ Len(pages[c]) >= 2
  /\ rel[c] = <<>>
  /\ Sum(nested, Calls) < MaxNested
  /\ nested' = [nested EXCEPT ![c] = @ + 1]
  /\ UNCHANGED <<options, signal, home, poolVars, kind, popts, pc, acq, got,
                 ctx, pages, rules, rel, handled, navigated, result>>

\* The calls release() makes, as recorded in the log of an invocation.
ClosePage(p) == <<"page", p>>
CloseContext == <<"context", 0>>
PoolRelease  == <<"pool", 0>>

\* The synchronous start of page.release(): pages.reverse() reverses the
\* array in place, the loop takes its first element and calls close() on it.
\* snap is the array as it was when release() was called.
release(c, who) ==
  /\ pages' = [pages EXCEPT ![c] = Reverse(@)]
  /\ rel' = [rel EXCEPT ![c] = Append(@,
               [by |-> who, pc |-> "page", idx |-> 1, snap |-> pages[c],
                log |-> <<ClosePage(Reverse(pages[c])[1])>>])]

\* A user who holds the page returned by acquirePage calls page.release().
UserRelease(c) ==
  /\ Running
  /\ kind[c] = "acquirePage"
  /\ acq[c] = "ok"
  /\ NumUserReleases < MaxReleases
  /\ \A r \in 1..Len(rel[c]) : rel[c][r].pc \in {"done", "failed"}
  /\ release(c, "user")
  /\ UNCHANGED <<options, signal, nested, home, poolVars,
                 kind, popts, pc, acq, got, ctx, rules,
                 handled, navigated, result>>

\* A user calls page.release() while an earlier call of it is suspended in
\* an await.
OverlappingRelease(c) ==
  /\ Running
  /\ kind[c] = "acquirePage"
  /\ acq[c] = "ok"
  /\ NumUserReleases < MaxReleases
  /\ \E r \in 1..Len(rel[c]) : rel[c][r].pc \in {"page", "ctx"}
  /\ release(c, "user")
  /\ UNCHANGED <<options, signal, nested, home, poolVars,
                 kind, popts, pc, acq, got, ctx, rules,
                 handled, navigated, result>>

\* mutant: release() is called after the handler only when it returned
Finally_SkipOnThrow(c, out) ==
  /\ handled' = [handled EXCEPT ![c] = out]
  /\ IF out = "error"
     THEN /\ pc' = [pc EXCEPT ![c] = "done"]
          /\ result' = [result EXCEPT ![c] = out]
          /\ UNCHANGED <<pages, rel>>
     ELSE /\ pc' = [pc EXCEPT ![c] = "finally"]
          /\ release(c, "callPage")
          /\ UNCHANGED result

\* callPage leaves its try block with outcome out ("value" or "error"): the
\* finally block calls page.release() and awaits it.
Finally(c, out) ==
  /\ handled' = [handled EXCEPT ![c] = out]
  /\ pc' = [pc EXCEPT ![c] = "finally"]
  /\ release(c, "callPage")
  /\ UNCHANGED result

\* The handler passed to callPage settles.
HandlerDone(c, ok) ==
  /\ Running
  /\ pc[c] = "handler"
  /\ Finally(c, IF ok THEN "value" ELSE "error")
  /\ UNCHANGED <<options, signal, nested, home, poolVars,
                 kind, popts, acq, got, ctx, rules,
                 navigated>>

\* getPageContent: `await page.goto(url)` settles; page.content() is called,
\* or the handler throws.
GotoDone(c, ok) ==
  /\ Running
  /\ pc[c] = "goto"
  /\ IF ok
     THEN /\ pc' = [pc EXCEPT ![c] = "content"]
          /\ UNCHANGED <<handled, pages, rel, result>>
     ELSE Finally(c, "error")
  /\ UNCHANGED <<options, signal, nested, home, poolVars,
                 kind, popts, acq, got, ctx, rules,
                 navigated>>

\* getPageContent: `await page.content()` settles and the handler settles.
ContentDone(c, ok) ==
  /\ Running
  /\ pc[c] = "content"
  /\ Finally(c, IF ok THEN "value" ELSE "error")
  /\ UNCHANGED <<options, signal, nested, home, poolVars,
                 kind, popts, acq, got, ctx, rules,
                 navigated>>

\* What callPage hands to its caller when the release() called in its
\* finally block has settled: an error thrown in finally replaces the
\* outcome of the try block.
callPage(c, released) == IF released THEN handled[c] ELSE "releaseError"

\* Invocation r of release() on the page of call c settles: when callPage
\* made the invocation, callPage settles too.
Resumed(c, r) ==
  IF rel[c][r].by = "callPage" THEN [pc EXCEPT ![c] = "done"] ELSE pc

Delivered(c, r, released) ==
  IF rel[c][r].by = "callPage"
  THEN [result EXCEPT ![c] = callPage(c, released)]
  ELSE result

\* An awaited close() inside release() throws: release() rejects.
ReleaseThrows(c, r) ==
  /\ rel' = [rel EXCEPT ![c][r].pc = "failed"]
  /\ pc' = Resumed(c, r)
  /\ result' = Delivered(c, r, FALSE)
  /\ UNCHANGED <<poolVars, got>>

\* Pool.release(b): rejected unless b is on loan; otherwise b becomes idle
\* and the pool dispenses. A pool that is being drained destroys b instead.
poolRelease(b, old) ==
  IF b \notin loaned THEN PoolState
  ELSE IF draining
  THEN [PoolState EXCEPT !.loaned = @ \ {b},
                         !.destroyed = destroy(@, b)]
  ELSE Dispense([PoolState EXCEPT !.loaned = @ \ {b},
                                  !.available = Append(@, b)], old)

\* The end of release(): `await pool.release(browser)`, then release()
\* settles. lg is the log of the invocation so far.
ReturnBrowser(c, r, lg) ==
  LET ok == got[c] \in loaned
  IN  /\ rel' = [rel EXCEPT ![c][r].pc = IF ok THEN "done" ELSE "failed",
                            ![c][r].log = Append(lg, PoolRelease)]
      /\ result' = Delivered(c, r, ok)
      /\ expired' \in Aged(Append(available, got[c]))
      /\ ApplyPool(poolRelease(got[c], expired'), Resumed(c, r), popts)
      /\ UNCHANGED created

\* mutant: the browser is returned to the pool before the context is closed
AfterLoop_ReturnFirst(c, r) ==
  IF ctx[c]
  THEN /\ rel' = [rel EXCEPT ![c][r].pc = "ctx",
                             ![c][r].log =
                               Append(Append(@, PoolRelease), CloseContext)]
       /\ expired' \in Aged(Append(available, got[c]))
       /\ ApplyPool(poolRelease(got[c], expired'), pc, popts)
       /\ UNCHANGED <<created, result>>
  ELSE ReturnBrowser(c, r, rel[c][r].log)

\* After the loop of release(): `if (ingocnito) await ingocnito.close()`.
AfterLoop(c, r) ==
  IF ctx[c]
  THEN /\ rel' = [rel EXCEPT ![c][r].pc = "ctx",
                             ![c][r].log = Append(@, CloseContext)]
       /\ UNCHANGED <<poolVars, pc, got, result>>
  ELSE ReturnBrowser(c, r, rel[c][r].log)

\* `await p.close()` settles in invocation r of release(): the loop goes on
\* with the next element of the pages array as it is now, or ends.
PageCloseDone(c, r, ok) ==
  /\ Running
  /\ r \in 1..Len(rel[c])
  /\ rel[c][r].pc = "page"
  /\ IF ~ok THEN ReleaseThrows(c, r)
     ELSE IF rel[c][r].idx < Len(pages[c])
     THEN /\ rel' = [rel EXCEPT
                       ![c][r].idx = @ + 1,
                       ![c][r].log =
                         Append(@, ClosePage(pages[c][rel[c][r].idx + 1]))]
          /\ UNCHANGED <<poolVars, pc, got, result>>
     ELSE AfterLoop(c, r)
  /\ UNCHANGED <<options, signal, nested, home, kind, popts, acq, ctx,
                 pages, rules, handled, navigated>>

\* `await ingocnito.close()` settles in invocation r of release(). A
\* context that closes takes the pages that are still open in it with it.
ContextCloseDone(c, r, ok) ==
  /\ Running
  /\ r \in 1..Len(rel[c])
  /\ rel[c][r].pc = "ctx"
  /\ IF ok THEN /\ ReturnBrowser(c, r, rel[c][r].log)
               /\ nested' = [nested EXCEPT ![c] = 0]
     ELSE /\ ReleaseThrows(c, r)
          /\ UNCHANGED nested
  /\ UNCHANGED <<options, signal, home, kind, popts, acq, ctx,
                 pages, rules, handled, navigated>>

Invocations == 1..(MaxReleases + 1)

Next ==
  \/ \E c \in 1..NumCalls,
        k \in {"acquirePage", "callPage", "getPageContent"},
        o \in PageOptionChoices : Start(c, k, o)
  \/ CreateDone
  \/ \E c \in Calls, ok \in BOOLEAN : ContextDone(c, ok)
  \/ \E c \in Calls, ok \in BOOLEAN, rulesOk \in BOOLEAN :
        NewPageDone(c, ok, rulesOk)
  \/ \E c \in Calls : Popup(c)
  \/ \E c \in Calls : UserRelease(c)
  \/ \E c \in Calls, ok \in BOOLEAN : HandlerDone(c, ok)
  \/ \E c \in Calls, ok \in BOOLEAN : GotoDone(c, ok)
  \/ \E c \in Calls, ok \in BOOLEAN : ContentDone(c, ok)
  \/ \E c \in Calls, r \in Invocations, ok \in BOOLEAN :
        PageCloseDone(c, r, ok)
  \/ \E c \in Calls, r \in Invocations, ok \in BOOLEAN :
        ContextCloseDone(c, r, ok)

Spec == Init /\ [][Next]_vars

\* The process receives SIGTERM: the hook calls pool.clear(). The acquirePage
\* calls whose request was queued reject.
Signal ==
  /\ signal = "none"
  /\ signal' = "clearing"
  /\ available' = clear(PoolState).available
  /\ waiting' = clear(PoolState).waiting
  /\ destroyed' = clear(PoolState).destroyed
  /\ pc' = [c \in Calls |-> IF c \in SeqSet(waiting) THEN "done" ELSE pc[c]]
  /\ acq' = [c \in Calls |-> IF c \in SeqSet(waiting) THEN "error"
                                                       ELSE acq[c]]
  /\ result' = [c \in Calls |-> IF c \in SeqSet(waiting) THEN "acquireError"
                                                          ELSE result[c]]
  /\ UNCHANGED <<options, loaned, creating, created, expired, kind, popts,
                 got, ctx, home, pages, nested, rules, rel, handled,
                 navigated>>

\* `await pool.clear()` settles, when no browser is being created, and the
\* hook sends SIGTERM again: with the hook of process.once removed, the
\* process exits.
ClearDone ==
  /\ signal = "clearing"
  /\ creating = 0
  /\ signal' = "exited"
  /\ UNCHANGED <<options, poolVars, callVars>>

\* The pool in use by callers of acquirePage when SIGTERM arrives.
NextLife ==
  \/ \E c \in 1..NumCalls : Start(c, "acquirePage", NoOptions)
  \/ CreateDone
  \/ \E c \in Calls, ok \in BOOLEAN : ContextDone(c, ok)
  \/ \E c \in Calls, ok \in BOOLEAN, rulesOk \in BOOLEAN :
        NewPageDone(c, ok, rulesOk)
  \/ \E c \in Calls : UserRelease(c)
  \/ \E c \in Calls, r \in Invocations, ok \in BOOLEAN :
        PageCloseDone(c, r, ok)
  \/ \E c \in Calls, r \in Invocations, ok \in BOOLEAN :
        ContextCloseDone(c, r, ok)
  \/ Signal
  \/ ClearDone

SpecLife == Init /\ [][NextLife]_vars

\* A pool created with min = 2, the other options left to their defaults,
\* and one caller of acquirePage. Every factory.create that was started
\* returns.
InitWarm == options = [min |-> 2] /\ Constructed

NextWarm ==
  \/ Start(1, "acquirePage", NoOptions)
  \/ CreateDone
  \/ \E c \in Calls, ok \in BOOLEAN : ContextDone(c, ok)
  \/ \E c \in Calls, ok \in BOOLEAN, rulesOk \in BOOLEAN :
        NewPageDone(c, ok, rulesOk)
  \/ \E c \in Calls : UserRelease(c)
  \/ \E c \in Calls, r \in Invocations, ok \in BOOLEAN :
        PageCloseDone(c, r, ok)
  \/ \E c \in Calls, r \in Invocations, ok \in BOOLEAN :
        ContextCloseDone(c, r, ok)

SpecWarm == InitWarm /\ [][NextWarm]_vars /\ WF_vars(CreateDone)

\* Three callers of acquirePage with the default page options on a pool of
\* one browser.
Init3 ==
  /\ options \in {[max |-> 1], [max |-> 1, testOnBorrow |-> FALSE]}
  /\ Constructed

Next3 ==
  \/ \E c \in 1..MaxCalls : Start(c, "acquirePage", NoOptions)
  \/ CreateDone
  \/ \E c \in Calls, ok \in BOOLEAN : ContextDone(c, ok)
  \/ \E c \in Calls, ok \in BOOLEAN, rulesOk \in BOOLEAN :
        NewPageDone(c, ok, rulesOk)
  \/ \E c \in Calls : UserRelease(c)
  \/ \E c \in Calls, r \in Invocations, ok \in BOOLEAN :
        PageCloseDone(c, r, ok)
  \/ \E c \in Calls, r \in Invocations, ok \in BOOLEAN :
        ContextCloseDone(c, r, ok)

Spec3 == Init3 /\ [][Next3]_vars

\* One session from acquirePage, with popups, pages opened by popups and
\* release() calls that overlap.
NextTree ==
  \/ \E o \in PageOptionChoices : Start(1, "acquirePage", o)
  \/ CreateDone
  \/ \E ok \in BOOLEAN : ContextDone(1, ok)
  \/ \E ok \in BOOLEAN, rulesOk \in BOOLEAN : NewPageDone(1, ok, rulesOk)
  \/ Popup(1)
  \/ NestedPopup(1)
  \/ UserRelease(1)
  \/ OverlappingRelease(1)
  \/ \E r \in Invocations, ok \in BOOLEAN : PageCloseDone(1, r, ok)
  \/ \E r \in Invocations, ok \in BOOLEAN : ContextCloseDone(1, r, ok)

SpecTree == Init /\ [][NextTree]_vars
\* ===================================================== claim vocabulary ====
Invocation(c) == 1..Len(rel[c])

\* invocation x of release() has returned or thrown
Settled(x) == x.pc \in {"done", "failed"}

\* release() has completed on the page of call c
Released(c) == \E r \in Invocation(c) : rel[c][r].pc = "done"

\* call c went through callPage (directly or from getPageContent)
ViaCallPage(c) == kind[c] \in {"callPage", "getPageContent"}

\* the invocations of release() that callPage made for call c
ByCallPage(c) == { r \in Invocation(c) : rel[c][r].by = "callPage" }

\* the pages closed by invocation x, in the order of the close() calls
Closed(x) == SelectSeq(x.log, LAMBDA e : e[1] = "page")

\* the pages of S, latest created first
RECURSIVE Latest(_)
Latest(S) ==
  IF S = {} THEN <<>>
  ELSE LET m == CHOOSE m \in S : \A n \in S : n <= m
       IN  <<ClosePage(m)>> \o Latest(S \ {m})

\* un-released session (or acquirePage still building one) of call c holds
\* browser b
Holds(c, b) ==
  /\ b # 0
  /\ got[c] = b
  /\ acq[c] \in {"none", "ok"}
  /\ ~Released(c)

\* the max the caller of createPool asked for
MaxAsked == IF "max" \in DOMAIN options THEN options.max
            ELSE defaultPoolOptions.max

\* ================================================================ C1 =====
\* C1: every completed release() has closed the tracked pages in strict
\* reverse creation order, then the incognito context if there is one, then
\* has called pool.release(browser).
C1_ReverseOrderThenContextThenPool ==
  \A c \in Calls : \A r \in Invocation(c) :
    LET x == rel[c][r]
        tracked == SeqSet(x.snap) \cup { e[2] : e \in SeqSet(Closed(x)) }
    IN  x.pc = "done" =>
          x.log = Latest(tracked)
                    \o (IF ctx[c] THEN <<CloseContext>> ELSE <<>>)
                    \o <<PoolRelease>>

\* ================================================================ C2 =====
\* C2: callPage calls release() exactly once when acquirePage succeeded and
\* the handler has returned or thrown, never otherwise, and its caller gets
\* the outcome only after that release() has settled.
C2_ReleaseExactlyOnce ==
  \A c \in Calls : ViaCallPage(c) =>
    /\ Cardinality(ByCallPage(c)) =
         (IF acq[c] = "ok" /\ handled[c] # "none" THEN 1 ELSE 0)
    /\ result[c] \notin {"none", "acquireError"} =>
         \E r \in ByCallPage(c) : Settled(rel[c][r])

\* a callPage whose handler threw has delivered its outcome
C2_Witness ==
  \E c \in Calls :
    /\ kind[c] = "callPage"
    /\ handled[c] = "error"
    /\ result[c] = "error"
    /\ \E r \in ByCallPage(c) : rel[c][r].pc = "done"

\* ================================================================ C3 =====
\* C3: a release() that has settled has attempted to close every page that
\* was tracked when it was called and the incognito context, and has called
\* pool.release(browser), whatever failed on the way.
C3_TeardownContinues ==
  \A c \in Calls : \A r \in Invocation(c) :
    LET x == rel[c][r]
    IN  Settled(x) =>
          /\ \A p \in SeqSet(x.snap) : ClosePage(p) \in SeqSet(x.log)
          /\ ctx[c] => CloseContext \in SeqSet(x.log)
          /\ PoolRelease \in SeqSet(x.log)

\* ================================================================ C4 =====
\* C4: what callPage hands to its caller is the outcome of the handler (its
\* value or its error), also when release() failed.
C4_PrimaryOutcomeKept ==
  \A c \in Calls :
    ViaCallPage(c) /\ pc[c] = "done" /\ handled[c] # "none" =>
      result[c] = handled[c]

\* ================================================================ C5 =====
\* C5: a browser is never idle in the pool and on loan at once, never idle
\* while an un-released session holds it, and never held by two un-released
\* sessions.
C5_ExclusiveOwner ==
  /\ SeqSet(available) \cap loaned = {}
  /\ \A c \in Calls : \A b \in SeqSet(available) : ~Holds(c, b)
  /\ \A c, d \in Calls : \A b \in loaned :
       Holds(c, b) /\ Holds(d, b) => c = d

\* ================================================================ C6 =====
\* C6: with max = 1 and two calls made, the second call gets no browser and
\* does not resolve before the first session's release() has completed, and
\* once both sessions are released the pool holds one browser, idle.
C6_SecondWaitsForFirst ==
  (MaxAsked = 1 /\ \A c \in Calls : c > 2 => pc[c] = "init") =>
    /\ \A c \in Calls : c = 2 /\ (got[c] # 0 \/ acq[c] = "ok") => Released(1)
    /\ (\A c \in Calls : c <= 2 => Released(c)) =>
         Len(available) = 1 /\ loaned = {} /\ creating = 0

\* the second call is queued while the first session's release() is running
C6_Witness ==
  /\ MaxAsked = 1
  /\ NumCalls >= 2
  /\ waiting = <<2>>
  /\ acq[1] = "ok"
  /\ \E r \in Invocation(1) : rel[1][r].pc = "page"

\* ================================================================ C7 =====
\* C7: the idle browsers and the browsers in use are never more than max.
C7_AtMostMax ==
  Len(available) + Cardinality(loaned) <= MaxAsked

\* the pool is full and a request is queued
C7_Witness ==
  /\ Len(available) + Cardinality(loaned) = MaxAsked
  /\ Len(waiting) > 0

\* ================================================================ C8 =====
\* C8: when acquirePage has failed, the browser it had obtained is not left
\* on loan.
C8_NoLeakedSlot ==
  \A c \in Calls : acq[c] = "error" => got[c] \notin loaned

\* ================================================================ C9 =====
\* C9: once a release() has completed on a page, a later release() on it
\* fails without any teardown step.
C9_ReleasedIsFinal ==
  \A c \in Calls : \A r1, r2 \in Invocation(c) :
    r1 < r2 /\ rel[c][r1].pc = "done" =>
      rel[c][r2].pc = "failed" /\ rel[c][r2].log = <<>>

\* =============================================================== C10 =====
\* C10: no page has the rules applied more than once; with ruleOptions set
\* the primary page has them applied once when acquirePage returns, hence
\* before page.goto, and with applyRulesToPopups every popup has them
\* applied once.
C10_RulesOnce ==
  \A c \in Calls :
    /\ \A k \in 1..Len(rules[c]) : rules[c][k] <= 1
    /\ hasRuleOptions(popts[c]) /\ (acq[c] = "ok" \/ navigated[c]) =>
         rules[c][1] = 1
    /\ hasRuleOptions(popts[c]) /\ pageOpts(popts[c]).applyRulesToPopups =>
         \A k \in 2..Len(pages[c]) : rules[c][k] = 1

\* getPageContent with ruleOptions has navigated and a popup was reported
C10_Witness ==
  \E c \in Calls :
    /\ kind[c] = "getPageContent"
    /\ hasRuleOptions(popts[c])
    /\ pageOpts(popts[c]).applyRulesToPopups
    /\ navigated[c]
    /\ rules[c] = <<1, 1>>
\* =============================================================== C11 =====
\* C11: when release() has completed on a session, every page spawned during
\* the lease has been closed: the pages the session tracked when release()
\* was called, and the pages opened by its popups.
C11_AllChildrenClosed ==
  \A c \in Calls : \A r \in Invocation(c) :
    rel[c][r].pc = "done" =>
      /\ \A p \in SeqSet(rel[c][r].snap) :
           ClosePage(p) \in SeqSet(rel[c][r].log)
      /\ nested[c] = 0
\* =============================================================== C12 =====
\* C12: with testOnBorrow, no step hands out a browser that has passed
\* opts.timeout; a browser that has passed it is idle and not yet asked for,
\* or destroyed; and a request waits only while no browser is idle and a
\* browser is being created for it or max browsers are in use or in creation.
C12_InvalidNeverHandedOut ==
  /\ [][opts.testOnBorrow =>
         \A b \in loaned' \ loaned : b \notin expired']_vars
  /\ [](opts.testOnBorrow =>
         /\ \A b \in expired :
              b \in destroyed \/ (b \in SeqSet(available) /\ waiting = <<>>)
         /\ waiting # <<>> =>
              /\ available = <<>>
              /\ \/ creating >= Len(waiting)
                 \/ Cardinality(loaned) + creating = opts.max)

\* a browser that passed opts.timeout was destroyed and a browser created
\* after it is on loan
C12_Witness ==
  /\ opts.testOnBorrow
  /\ \E b \in expired \cap destroyed :
       \E c \in Calls : got[c] > b /\ got[c] \in loaned
\* =============================================================== C13 =====
\* C13: the queued requests are in the order of their calls, and a step in
\* which a queued request gets a browser gives it to the oldest one.
C13_OldestWaiterFirst ==
  /\ [](\A i, j \in 1..Len(waiting) : i < j => waiting[i] < waiting[j])
  /\ [][\A c \in SeqSet(waiting) :
          got[c] = 0 /\ got'[c] # 0 => c = Head(waiting)]_vars

\* two requests are queued while the holder's release() is at its last await
C13_Witness ==
  /\ waiting = <<2, 3>>
  /\ \E r \in Invocation(1) : rel[1][r].pc = "ctx"
\* =============================================================== C14 =====
\* C14: while the pool is drained no browser is idle, every browser that is
\* not on loan has been destroyed and no browser on loan has been; and a
\* browser on loan is destroyed only in the step in which a release() of its
\* holder returns it.
C14_IdleNowInUseOnRelease ==
  /\ [](draining =>
         /\ available = <<>>
         /\ loaned \cap destroyed = {}
         /\ \A b \in 1..created : b \in loaned \/ b \in destroyed)
  /\ [][\A b \in loaned \cap (destroyed' \ destroyed) :
          \E c \in Calls : \E r \in Invocation(c) :
            /\ got[c] = b
            /\ rel[c][r].pc # "done"
            /\ rel'[c][r].pc = "done"]_vars

\* the pool is drained with one browser destroyed and one on loan, whose
\* holder has called release()
C14_Witness ==
  /\ signal = "clearing"
  /\ Cardinality(destroyed) = 1
  /\ \E c \in Calls :
       /\ got[c] \in loaned
       /\ \E r \in Invocation(c) : rel[c][r].pc \in {"page", "ctx"}

\* =============================================================== C16 =====
\* C16: when the process exits after SIGTERM, clear() has completed and every
\* browser the pool created has been destroyed.
C16_FlushedBeforeExit ==
  signal = "exited" =>
    /\ creating = 0
    /\ available = <<>>
    /\ \A b \in 1..created : b \in destroyed
\* =============================================================== C15 =====
\* no acquirePage call has been made
NoCall == \A c \in Calls : pc[c] = "init"

\* C15: in a pool with min = 2, max = 5 and autostart, as long as no call is
\* made the browsers created and in creation are exactly 2 and every browser
\* created is idle, and unless a call is made the pool comes to hold exactly
\* 2 idle browsers with none in creation.
C15_WarmsToMin ==
  /\ [](NoCall => /\ created + creating = 2
                  /\ SeqSet(available) = 1..created
                  /\ loaned = {})
  /\ <>(~NoCall \/ (Len(available) = 2 /\ creating = 0))

\* the pool holds 2 idle browsers and no call has been made
C15_Witness ==
  /\ opts.min = 2 /\ opts.max = 5 /\ opts.autostart
  /\ NoCall
  /\ Len(available) = 2
  /\ created = 2
\* =============================================================== C17 =====
\* the close() calls on the incognito context made by invocation x
ContextCloses(x) == Len(SelectSeq(x.log, LAMBDA e : e = CloseContext))

\* C17: a call has an incognito context only if its incognito option is
\* true; when acquirePage has returned, it has one if and only if the option
\* is true and the page list holds the primary page once, created in the
\* context when there is one and on the browser otherwise; a release() that
\* has completed has closed the context exactly once when there is one, and
\* no release() closes a context otherwise or closes it twice.
C17_ContextIffIncognito ==
  \A c \in Calls :
    /\ ctx[c] => pageOpts(popts[c]).incognito
    /\ acq[c] = "ok" =>
         /\ ctx[c] <=> pageOpts(popts[c]).incognito
         /\ Cardinality({k \in 1..Len(pages[c]) : pages[c][k] = 1}) = 1
         /\ home[c] = (IF pageOpts(popts[c]).incognito THEN "context"
                                                       ELSE "browser")
    /\ \A r \in Invocation(c) :
         /\ ContextCloses(rel[c][r]) <= (IF ctx[c] THEN 1 ELSE 0)
         /\ rel[c][r].pc = "done" =>
              ContextCloses(rel[c][r]) = (IF ctx[c] THEN 1 ELSE 0)

\* a session with an incognito context and a session without one have both
\* been released
C17_Witness ==
  \E c, d \in Calls :
    /\ ctx[c] /\ home[c] = "context"
    /\ \E r \in Invocation(c) : rel[c][r].pc = "done"
    /\ ~ctx[d] /\ home[d] = "browser"
    /\ \E r \in Invocation(d) : rel[d][r].pc = "done"
\* =============================================================== C18 =====
\* C18: once release() has completed on a session, no step appends a page to
\* the page list of the session.
C18_NoAppendAfterRelease ==
  [][\A c \in Calls : Released(c) => Len(pages'[c]) = Len(pages[c])]_vars

\* =============================================================== C19 =====
\* C19: the release() calls on one session return its browser to the pool at
\* most once, and a browser held by an un-released session is on loan and is
\* not handed to another session.
C19_SecondReleaseKeepsBrowser ==
  /\ \A c \in Calls :
       Cardinality({r \in Invocation(c) : rel[c][r].pc = "done"}) <= 1
  /\ \A c \in Calls :
       acq[c] = "ok" /\ ~Released(c) => got[c] \in loaned
  /\ \A c, d \in Calls :
       c # d /\ acq[c] = "ok" /\ acq[d] = "ok" /\ got[c] = got[d] =>
         Released(c) \/ Released(d)
\* =============================================================== C20 =====
\* C20: a release() closes no page twice and closes pages only before it
\* closes the context and returns the browser; when its loop has ended it
\* has closed every page that is in the page list at that moment, the popups
\* reported during the loop included.
C20_PopupDuringLoopClosed ==
  \A c \in Calls : \A r \in Invocation(c) :
    LET x == rel[c][r]
        n == Len(Closed(x))
    IN  /\ \A i, j \in 1..n : i < j => Closed(x)[i] # Closed(x)[j]
        /\ SubSeq(x.log, 1, n) = Closed(x)
        /\ x.pc \in {"ctx", "done"} =>
             { e[2] : e \in SeqSet(Closed(x)) } = 1..x.idx
====
